---- MODULE Spec2Model ----
(***************************************************************************)
(* Model of the ui-api-automation test suite: the inventory page object   *)
(* (pages/inventory_page.py over pages/base_page.py), the pytest fixtures  *)
(* (tests/conftest.py), the airport list parser (config/settings.py) and   *)
(* the logger provider (utils/logger.py).                                  *)
(*                                                                         *)
(* Text is modelled as a sequence of one-character strings.                *)
(***************************************************************************)
EXTENDS Integers, Sequences, FiniteSets, TLC

VARIABLES
    \* ---- the inventory page (the DOM the page object drives) ----
    addButtons,     \* number of elements matching ADD_TO_CART_BTNS
    badgeVisible,   \* whether an element matching CART_BADGE is visible
    badgeText,      \* raw text content of the cart badge
    \* ---- the running page-object call ----
    pc,             \* position inside the running method ("idle" between calls)
    op,             \* the method last called
    number,         \* add_items_to_cart's / assert_cart_count's argument
    available,      \* add_items_to_cart's local `available`
    to_add,         \* add_items_to_cart's local `to_add`
    i,              \* add_items_to_cart's loop index
    added,          \* the local `added` of both add methods
    ret,            \* value returned by the last completed call
    raised,         \* exception the last call ended with ("none" if it returned)
    \* ---- observation of the running call ----
    startButtons,   \* addButtons when the call was made
    startCart,      \* cart count shown by the badge when the call was made
    clicks,         \* clicks performed by the call
    reads,          \* add_buttons.count() reads performed by the call
    freshRead,      \* a count() read happened since the call's last click
    drops,          \* add buttons that left the page without a click during the call
    results,        \* last completed add call from a fresh page, per method
    waited,         \* the call entered expect_visible's bounded wait
    message,        \* the message of the call's AssertionError
    \* ---- the pytest session (tests/conftest.py) ----
    phase,          \* where the session is: between tests, or in a test's setup, call, teardown
    tests,          \* the tests started so far, in order
    browser,        \* the session's browser: "unlaunched", "open" or "closed"
    launches,       \* chromium.launch calls made
    contexts,       \* the browser contexts created so far, in order
    \* ---- configuration (config/settings.py) ----
    expected_airports_csv,  \* AirportData.expected_airports_csv
    airportsRead,           \* AirportData.expected_airports has been read
    parsed,                 \* the last value read from AirportData.expected_airports
    \* ---- the logger provider (utils/logger.py) ----
    clock,          \* datetime.utcnow(), in clock ticks since the process started
    _loggers,       \* the names cached in _loggers
    handlers,       \* per logger name, the handlers registered on logging's logger
    returned        \* the name of the logger setup_logger last returned

pageVars   == <<addButtons, badgeVisible, badgeText>>
frameVars  == <<pc, op, number, available, to_add, i, added, ret, raised>>
obsVars    == <<startButtons, startCart, clicks, reads, freshRead, drops, results>>
assertVars == <<waited, message>>
fixVars    == <<phase, tests, browser, launches, contexts>>
cfgVars    == <<expected_airports_csv, airportsRead, parsed>>
logVars    == <<clock, _loggers, handlers, returned>>
sysVars    == <<fixVars, cfgVars, logVars>>
vars == <<pageVars, frameVars, obsVars, assertVars, sysVars>>

----------------------------------------------------------------------------
\* Bounds and program constants

\* items on a freshly loaded inventory page (tests/ui/test_inventory_ui.py)
NumItems == 6
\* largest argument tried for add_items_to_cart
MaxRequest == 8

----------------------------------------------------------------------------
\* Text helpers (Python str / int semantics)

Digits == <<"0", "1", "2", "3", "4", "5", "6", "7", "8", "9">>
DigitChars == {Digits[k] : k \in 1..10}
Whitespace == {" "}

DigitOf(n) == Digits[n + 1]
DigitValue(c) == CHOOSE d \in 0..9 : Digits[d + 1] = c

RECURSIVE PyStrNat(_)
PyStrNat(n) == IF n < 10 THEN <<DigitOf(n)>>
               ELSE Append(PyStrNat(n \div 10), DigitOf(n % 10))

\* str(n) for an int
PyStr(n) == IF n < 0 THEN <<"-">> \o PyStrNat(0 - n) ELSE PyStrNat(n)

RECURSIVE LStrip(_)
LStrip(s) == IF s # <<>> /\ Head(s) \in Whitespace THEN LStrip(Tail(s)) ELSE s

RECURSIVE RStrip(_)
RStrip(s) == IF s # <<>> /\ s[Len(s)] \in Whitespace
             THEN RStrip(SubSeq(s, 1, Len(s) - 1)) ELSE s

\* str.strip()
Strip(s) == RStrip(LStrip(s))

RECURSIVE DigitsToNat(_)
DigitsToNat(s) == IF s = <<>> THEN 0
                  ELSE 10 * DigitsToNat(SubSeq(s, 1, Len(s) - 1)) + DigitValue(s[Len(s)])

\* int(s) accepts an optional sign followed by digits (surrounding whitespace
\* ignored); anything else raises ValueError
PyIntOk(s) ==
    LET t == Strip(s)
        u == IF t # <<>> /\ Head(t) \in {"-", "+"} THEN Tail(t) ELSE t
    IN  u # <<>> /\ \A k \in 1..Len(u) : u[k] \in DigitChars

PyInt(s) ==
    LET t == Strip(s)
    IN  IF Head(t) = "-" THEN 0 - DigitsToNat(Tail(t))
        ELSE IF Head(t) = "+" THEN DigitsToNat(Tail(t))
        ELSE DigitsToNat(t)

Min(a, b) == IF a < b THEN a ELSE b

----------------------------------------------------------------------------
\* BasePage helpers

\* BasePage.get_text: text_content() or "", stripped
get_text(raw) == Strip(raw)

\* BasePage.is_visible(CART_BADGE): one check, no waiting
is_visible == badgeVisible

\* the cart count the badge shows, an absent badge counting as 0
BadgeCount == IF ~badgeVisible THEN 0
              ELSE IF PyIntOk(get_text(badgeText)) THEN PyInt(get_text(badgeText))
              ELSE -1

----------------------------------------------------------------------------
\* The inventory page's reaction to a click on the first add button: that
\* button turns into a remove button and the cart badge counts one more.
ClickFirstAddButton ==
    /\ addButtons' = addButtons - 1
    /\ badgeVisible' = TRUE
    /\ badgeText' = PyStr(BadgeCount + 1)

\* A freshly loaded inventory page: NumItems add buttons, empty cart, no badge
FreshPage ==
    /\ addButtons = NumItems
    /\ badgeVisible = FALSE
    /\ badgeText = <<>>

NoResult == [number |-> -1, ret |-> -1, raised |-> "none", buttons |-> -1, badge |-> <<"?">>]

\* the names setup_logger is called with: conftest.py, test_inventory_ui.py,
\* test_airports_api.py and BasePage.__init__ (the page class's name)
LoggerNames == {"Fixtures", "UI_Tests", "API_Tests", "LoginPage", "InventoryPage"}

\* No page-object call has been made
InitFrame ==
    /\ pc = "idle"
    /\ op = "none"
    /\ number = 0
    /\ available = 0
    /\ to_add = 0
    /\ i = 0
    /\ added = 0
    /\ ret = 0
    /\ raised = "none"
    /\ startButtons = NumItems
    /\ startCart = 0
    /\ clicks = 0
    /\ reads = 0
    /\ freshRead = FALSE
    /\ drops = 0
    /\ results = [m \in {"add_items_to_cart", "add_all_items_to_cart"} |-> NoResult]
    /\ waited = FALSE
    /\ message = <<>>

\* The session has not started a test, the configuration holds no list and no
\* logger has been set up
InitSession ==
    /\ phase = "between"
    /\ tests = <<>>
    /\ browser = "unlaunched"
    /\ launches = 0
    /\ contexts = <<>>

InitConfig ==
    /\ expected_airports_csv = <<>>
    /\ airportsRead = FALSE
    /\ parsed = <<>>

InitLogger ==
    /\ clock = 0
    /\ _loggers = {}
    /\ handlers = [n \in LoggerNames |-> <<>>]
    /\ returned = "none"

Init ==
    /\ FreshPage
    /\ InitFrame
    /\ InitSession
    /\ InitConfig
    /\ InitLogger

\* Entering a page-object method: a new frame, and a new observation of it
Enter(method, arg) ==
    /\ pc \in {"idle", "done"}
    /\ op' = method
    /\ number' = arg
    /\ available' = 0
    /\ to_add' = 0
    /\ i' = 0
    /\ added' = 0
    /\ ret' = 0
    /\ raised' = "none"
    /\ startButtons' = addButtons
    /\ startCart' = BadgeCount
    /\ clicks' = 0
    /\ reads' = 0
    /\ freshRead' = FALSE
    /\ drops' = 0
    /\ waited' = FALSE
    /\ message' = <<>>
    /\ UNCHANGED <<pageVars, results, sysVars>>

\* What a completed add call leaves in `results`
Outcome(r, exc) ==
    [number |-> number, ret |-> r, raised |-> exc, buttons |-> addButtons, badge |-> badgeText]

Record(r, exc) ==
    IF startButtons = NumItems /\ startCart = 0 /\ drops = 0
    THEN results' = [results EXCEPT ![op] = Outcome(r, exc)]
    ELSE UNCHANGED results

----------------------------------------------------------------------------
\* InventoryPage.add_items_to_cart(number)

ToAdd_NoCap(n, avail) == n

\* to_add = min(number, available)
ToAdd(n, avail) == Min(n, avail)

AddItemsContinue_OffByOne(idx, n) == idx <= n

\* for i in range(to_add)
AddItemsContinue(idx, n) == idx < n

CallAddItems ==
    \E n \in -1..MaxRequest :
        /\ Enter("add_items_to_cart", n)
        /\ pc' = "add_items_count"

\* available = self.add_buttons.count(); to_add = min(number, available); added = 0
AddItemsCount ==
    /\ UNCHANGED <<assertVars, sysVars>>
    /\ pc = "add_items_count"
    /\ available' = addButtons
    /\ to_add' = ToAdd(number, addButtons)
    /\ added' = 0
    /\ i' = 0
    /\ reads' = reads + 1
    /\ freshRead' = TRUE
    /\ pc' = "add_items_loop"
    /\ UNCHANGED <<pageVars, op, number, ret, raised,
                   startButtons, startCart, clicks, drops, results>>

\* (an iteration that reads the live count again and ends the loop at zero)
AddItemsClick_Requery ==
    /\ UNCHANGED <<assertVars, sysVars>>
    /\ pc = "add_items_loop"
    /\ AddItemsContinue(i, to_add)
    /\ reads' = reads + 1
    /\ IF addButtons > 0
       THEN /\ ClickFirstAddButton
            /\ added' = added + 1
            /\ i' = i + 1
            /\ clicks' = clicks + 1
            /\ freshRead' = FALSE
            /\ UNCHANGED to_add
       ELSE /\ to_add' = i
            /\ UNCHANGED <<pageVars, added, i, clicks, freshRead>>
    /\ UNCHANGED <<pc, op, number, available, ret, raised,
                   startButtons, startCart, drops, results>>

\* one iteration: self.click(self.add_buttons.first); added += 1
\* (a click on a locator that matches nothing times out)
AddItemsClick ==
    /\ UNCHANGED <<assertVars, sysVars>>
    /\ pc = "add_items_loop"
    /\ AddItemsContinue(i, to_add)
    /\ IF addButtons > 0
       THEN /\ ClickFirstAddButton
            /\ added' = added + 1
            /\ i' = i + 1
            /\ clicks' = clicks + 1
            /\ freshRead' = FALSE
            /\ UNCHANGED <<pc, raised, results>>
       ELSE /\ raised' = "TimeoutError"
            /\ pc' = "done"
            /\ Record(0, "TimeoutError")
            /\ UNCHANGED <<pageVars, added, i, clicks, freshRead>>
    /\ UNCHANGED <<op, number, available, to_add, ret,
                   startButtons, startCart, reads, drops>>

\* return added
AddItemsReturn ==
    /\ UNCHANGED <<assertVars, sysVars>>
    /\ pc = "add_items_loop"
    /\ ~AddItemsContinue(i, to_add)
    /\ ret' = added
    /\ pc' = "done"
    /\ Record(added, "none")
    /\ UNCHANGED <<pageVars, op, number, available, to_add, i, added, raised,
                   startButtons, startCart, clicks, reads, freshRead, drops>>

----------------------------------------------------------------------------
\* InventoryPage.add_all_items_to_cart()

AddAllContinue_Cached(live) == startButtons > 0

\* while self.add_buttons.count() > 0
AddAllContinue(live) == live > 0

CallAddAll ==
    /\ Enter("add_all_items_to_cart", 0)
    /\ pc' = "add_all_test"

\* the loop test, true: the live count is read and is positive
AddAllTest ==
    /\ UNCHANGED <<assertVars, sysVars>>
    /\ pc = "add_all_test"
    /\ AddAllContinue(addButtons)
    /\ reads' = reads + 1
    /\ freshRead' = TRUE
    /\ pc' = "add_all_click"
    /\ UNCHANGED <<pageVars, op, number, available, to_add, i, added, ret, raised,
                   startButtons, startCart, clicks, drops, results>>

\* (a loop body that forgets added += 1)
AddAllClick_NoCount ==
    /\ UNCHANGED <<assertVars, sysVars>>
    /\ pc = "add_all_click"
    /\ addButtons > 0
    /\ ClickFirstAddButton
    /\ clicks' = clicks + 1
    /\ freshRead' = FALSE
    /\ pc' = "add_all_test"
    /\ UNCHANGED <<op, number, available, to_add, i, added, ret, raised,
                   startButtons, startCart, reads, drops, results>>

\* the loop body: self.click(self.add_buttons.first); added += 1
AddAllClick ==
    /\ UNCHANGED <<assertVars, sysVars>>
    /\ pc = "add_all_click"
    /\ IF addButtons > 0
       THEN /\ ClickFirstAddButton
            /\ added' = added + 1
            /\ clicks' = clicks + 1
            /\ freshRead' = FALSE
            /\ pc' = "add_all_test"
            /\ UNCHANGED <<raised, results>>
       ELSE /\ raised' = "TimeoutError"
            /\ pc' = "done"
            /\ Record(0, "TimeoutError")
            /\ UNCHANGED <<pageVars, added, clicks, freshRead>>
    /\ UNCHANGED <<op, number, available, to_add, i, ret,
                   startButtons, startCart, reads, drops>>

\* the loop test, false: the live count is read and is zero; return added
AddAllReturn ==
    /\ UNCHANGED <<assertVars, sysVars>>
    /\ pc = "add_all_test"
    /\ ~AddAllContinue(addButtons)
    /\ reads' = reads + 1
    /\ freshRead' = TRUE
    /\ ret' = added
    /\ pc' = "done"
    /\ Record(added, "none")
    /\ UNCHANGED <<pageVars, op, number, available, to_add, i, added, raised,
                   startButtons, startCart, clicks, drops>>

----------------------------------------------------------------------------
\* A test's opening: LoginPage(page).open().login() on the test's own page
\* lands on a freshly loaded inventory page
LoadInventory ==
    /\ UNCHANGED <<assertVars, sysVars>>
    /\ pc = "done"
    /\ pc' = "idle"
    /\ addButtons' = NumItems
    /\ badgeVisible' = FALSE
    /\ badgeText' = <<>>
    /\ UNCHANGED <<op, number, available, to_add, i, added, ret, raised, obsVars>>

Step ==
    \/ AddItemsCount
    \/ AddItemsClick
    \/ AddItemsReturn
    \/ AddAllTest
    \/ AddAllClick
    \/ AddAllReturn

Next ==
    \/ CallAddItems
    \/ CallAddAll
    \/ LoadInventory
    \/ Step

\* the page changes only in response to clicks
Spec == Init /\ [][Next]_vars

\* a running call keeps running
FairSpec == Spec /\ WF_vars(Step)

----------------------------------------------------------------------------
\* The page also changes on its own: an add button leaves the page without a
\* click of the running call (the item is added or the list re-rendered by
\* something other than the call)
EnvDropButton ==
    /\ UNCHANGED <<assertVars, sysVars>>
    /\ pc \notin {"idle", "done"}
    /\ addButtons > 0
    /\ addButtons' = addButtons - 1
    /\ drops' = drops + 1
    /\ UNCHANGED <<badgeVisible, badgeText, frameVars,
                   startButtons, startCart, clicks, reads, freshRead, results>>

NextLive ==
    \/ Next
    \/ EnvDropButton

SpecLive == Init /\ [][NextLive]_vars

----------------------------------------------------------------------------
\* Claims about the add-to-cart methods

AddItemsDone == pc = "done" /\ op = "add_items_to_cart"
AddAllRunning == op = "add_all_items_to_cart" /\ pc \in {"add_all_test", "add_all_click"}
AddAllDone == pc = "done" /\ op = "add_all_items_to_cart"
FromFreshPage == startButtons = NumItems /\ startCart = 0

\* C1: from a freshly loaded page (NumItems add buttons, empty cart), a completed
\* add_items_to_cart(n) with 0 <= n <= NumItems has returned exactly n and the
\* cart badge shows n (no badge counting as 0).
C1_AddItemsReturnsRequested ==
    (AddItemsDone /\ FromFreshPage /\ number \in 0..NumItems)
        => /\ raised = "none"
           /\ ret = number
           /\ BadgeCount = number
           /\ (number > 0 => badgeVisible /\ get_text(badgeText) = PyStr(number))
           /\ (number = 0 => ~badgeVisible)

C1_Witness ==
    /\ AddItemsDone /\ FromFreshPage
    /\ number = 3 /\ ret = 3 /\ badgeText = <<"3">>

\* C2: add_items_to_cart(n) with n above the number of add buttons present
\* returns exactly that number, never raises, and is never about to click when
\* no add button remains.
C2_AddItemsCapsAtAvailable ==
    (op = "add_items_to_cart" /\ number > startButtons)
        => /\ raised = "none"
           /\ (pc = "add_items_loop" /\ AddItemsContinue(i, to_add) => addButtons > 0)
           /\ (pc = "done" => ret = startButtons /\ clicks = startButtons /\ addButtons = 0)

C2_Witness ==
    /\ AddItemsDone /\ FromFreshPage
    /\ number = NumItems + 2 /\ ret = NumItems /\ raised = "none"

\* C3: add_all_items_to_cart() terminates; every click of it follows a fresh read
\* of the live count that found a button; it returns only when the live count is
\* zero, returning its number of clicks, which is the number of add buttons
\* present at the start.
C3_AddAllSafety ==
    /\ (op = "add_all_items_to_cart" => raised = "none")
    /\ (op = "add_all_items_to_cart" /\ pc = "add_all_click" => freshRead /\ addButtons > 0)
    /\ (AddAllDone => /\ addButtons = 0
                      /\ ret = clicks
                      /\ ret = startButtons
                      /\ reads = clicks + 1)

\* C3, in full: the safety part above always holds, and a running
\* add_all_items_to_cart() call eventually completes.
C3_AddAllTerminates ==
    /\ []C3_AddAllSafety
    /\ (AddAllRunning ~> AddAllDone)

C3_Witness ==
    /\ AddAllDone /\ FromFreshPage
    /\ ret = NumItems /\ clicks = NumItems /\ reads = NumItems + 1 /\ addButtons = 0

\* C4: from the same fresh page, add_all_items_to_cart() and add_items_to_cart(NumItems)
\* have the same effect: both return NumItems and both leave the same page, with
\* the badge at NumItems and no add button.
C4_AddAllEquivalentToAddSix ==
    LET all == results["add_all_items_to_cart"]
        six == results["add_items_to_cart"]
    IN  (all # NoResult /\ six # NoResult /\ six.number = NumItems)
            => /\ all.ret = NumItems /\ six.ret = NumItems
               /\ all.raised = "none" /\ six.raised = "none"
               /\ all.buttons = six.buttons /\ all.badge = six.badge
               /\ all.buttons = 0 /\ all.badge = PyStr(NumItems)

C4_Witness ==
    /\ results["add_all_items_to_cart"] # NoResult
    /\ results["add_items_to_cart"] # NoResult
    /\ results["add_items_to_cart"].number = NumItems
    /\ results["add_items_to_cart"].badge = <<"6">>

\* C10 as stated: inside add_items_to_cart every click is preceded by a fresh read
\* of the live count, and the call never ends by clicking a button that is gone.
C10_RequeriesBeforeEachClick ==
    op = "add_items_to_cart"
        => /\ (pc = "add_items_loop" /\ AddItemsContinue(i, to_add) => freshRead)
           /\ raised # "TimeoutError"

\* C10 amended: add_items_to_cart reads the live count once, before its first
\* click, and attempts min(number, that count) clicks without reading it again; when
\* add buttons leave the page during the call so that none is left for a click,
\* the call does not stop: it clicks a locator that matches nothing and ends
\* with a timeout error.
C10_CountReadOnce ==
    op = "add_items_to_cart"
        => /\ reads <= 1
           /\ (pc \in {"add_items_loop", "done"}
                 => /\ reads = 1
                    /\ available <= startButtons
                    /\ addButtons = startButtons - drops - clicks
                    /\ to_add = Min(number, available)
                    /\ clicks = i /\ added = i)
           /\ (pc = "add_items_loop" /\ clicks > 0 => ~freshRead)
           /\ (pc = "done" /\ raised = "none"
                 => /\ ret = clicks
                    /\ (to_add >= 0 => clicks = to_add)
                    /\ (to_add < 0 => clicks = 0))
           /\ (pc = "done" /\ raised # "none"
                 => /\ raised = "TimeoutError"
                    /\ addButtons = 0 /\ clicks < to_add
                    /\ available - clicks > 0 /\ drops >= available - clicks)
           /\ (pc = "done" /\ clicks < to_add => raised = "TimeoutError")

C10_Witness ==
    /\ AddItemsDone /\ FromFreshPage
    /\ number = 3 /\ available = NumItems /\ to_add = 3
    /\ clicks = 1 /\ drops = 5 /\ reads = 1
    /\ raised = "TimeoutError"

----------------------------------------------------------------------------
\* InventoryPage.assert_cart_count(expected), on a page whose cart badge may be
\* absent, may show any text, and may appear while the call runs

\* longest badge text tried
MaxTextLen == 3
\* largest expected count tried
MaxExpected == 11

BadgeAlphabet == {"0", "1", " ", "x"}
BadgeTexts == UNION {[1..n -> BadgeAlphabet] : n \in 0..MaxTextLen}

InitAssert ==
    /\ addButtons = NumItems
    /\ \/ badgeVisible = FALSE /\ badgeText = <<>>
       \/ badgeVisible = TRUE /\ badgeText \in BadgeTexts
    /\ InitFrame
    /\ InitSession
    /\ InitConfig
    /\ InitLogger

IsZeroCase_Never(expected) == FALSE

\* if expected == 0
IsZeroCase(expected) == expected = 0

BadgeMatches_AsInt(actual, expected) == PyIntOk(actual) /\ PyInt(actual) = expected

\* actual == str(expected)
BadgeMatches(actual, expected) == actual = PyStr(expected)

\* f"Expected empty cart (0) but badge showed {actual}"
EmptyCartMessage(actual) == <<"Expected empty cart (0) but badge showed", PyStr(actual)>>

\* f"Cart badge expected {expected} got {actual}"
CartBadgeMessage(expected, actual) == <<"Cart badge expected", PyStr(expected), "got", actual>>

CallAssertCartCount ==
    \E expected \in 0..MaxExpected :
        /\ Enter("assert_cart_count", expected)
        /\ pc' = "assert_entry"

\* the expected == 0 branch: one is_visible check; the text is read and parsed
\* only when the badge is visible
AssertCartCountZero ==
    /\ pc = "assert_entry"
    /\ IsZeroCase(number)
    /\ pc' = "done"
    /\ IF ~is_visible
       THEN raised' = "none" /\ UNCHANGED message
       ELSE IF ~PyIntOk(get_text(badgeText))
       THEN raised' = "ValueError" /\ UNCHANGED message
       ELSE IF PyInt(get_text(badgeText)) = 0
       THEN raised' = "none" /\ UNCHANGED message
       ELSE /\ raised' = "AssertionError"
            /\ message' = EmptyCartMessage(PyInt(get_text(badgeText)))
    /\ UNCHANGED <<pageVars, op, number, available, to_add, i, added, ret,
                   obsVars, waited, sysVars>>

\* self.expect_visible(self.cart_badge): the bounded wait begins
AssertCartCountExpect ==
    /\ pc = "assert_entry"
    /\ ~IsZeroCase(number)
    /\ pc' = "expect_visible"
    /\ waited' = TRUE
    /\ UNCHANGED <<pageVars, op, number, available, to_add, i, added, ret, raised,
                   obsVars, message, sysVars>>

\* expect(loc).to_be_visible: a poll finds the badge visible
ExpectVisiblePass ==
    /\ pc = "expect_visible"
    /\ badgeVisible
    /\ pc' = "assert_compare"
    /\ UNCHANGED <<pageVars, op, number, available, to_add, i, added, ret, raised,
                   obsVars, assertVars, sysVars>>

\* expect(loc).to_be_visible: the timeout elapses with the badge not visible and
\* the expectation fails ("ExpectTimeout" stands for the error Playwright's
\* expect raises then)
ExpectVisibleTimeout ==
    /\ pc = "expect_visible"
    /\ ~badgeVisible
    /\ raised' = "ExpectTimeout"
    /\ pc' = "done"
    /\ UNCHANGED <<pageVars, op, number, available, to_add, i, added, ret,
                   obsVars, assertVars, sysVars>>

\* actual = self.get_text(self.cart_badge); assert actual == str(expected)
AssertCartCountCompare ==
    /\ pc = "assert_compare"
    /\ pc' = "done"
    /\ IF BadgeMatches(get_text(badgeText), number)
       THEN raised' = "none" /\ UNCHANGED message
       ELSE /\ raised' = "AssertionError"
            /\ message' = CartBadgeMessage(number, get_text(badgeText))
    /\ UNCHANGED <<pageVars, op, number, available, to_add, i, added, ret,
                   obsVars, waited, sysVars>>

\* the page renders the badge while a call is at its entry or waiting
BadgeAppears ==
    /\ pc \in {"assert_entry", "expect_visible"}
    /\ ~badgeVisible
    /\ badgeVisible' = TRUE
    /\ badgeText' \in BadgeTexts
    /\ UNCHANGED <<addButtons, frameVars, obsVars, assertVars, sysVars>>

NextAssert ==
    \/ CallAssertCartCount
    \/ AssertCartCountZero
    \/ AssertCartCountExpect
    \/ ExpectVisiblePass
    \/ ExpectVisibleTimeout
    \/ AssertCartCountCompare
    \/ BadgeAppears

SpecAssert == InitAssert /\ [][NextAssert]_vars

AssertDone == pc = "done" /\ op = "assert_cart_count"

\* the text is a number other than zero: digits only, one of them not "0"
ShowsNonZeroNumber(t) ==
    /\ t # <<>>
    /\ \A k \in 1..Len(t) : t[k] \in DigitChars
    /\ \E k \in 1..Len(t) : t[k] # "0"

\* the text is the decimal rendering of n > 0: digits only, no leading zero,
\* and the digits weigh n
RECURSIVE Weigh(_, _)
Weigh(t, acc) == IF t = <<>> THEN acc ELSE Weigh(Tail(t), 10 * acc + DigitValue(Head(t)))

IsDecimalOf(t, n) ==
    /\ t # <<>>
    /\ \A k \in 1..Len(t) : t[k] \in DigitChars
    /\ Head(t) # "0"
    /\ Weigh(t, 0) = n

\* C5: assert_cart_count(0) never enters the wait; it succeeds when the badge is
\* not visible and when it is visible with text "0", and fails with an
\* AssertionError when the badge is visible showing a non-zero number.
C5_AssertZeroAcceptsAbsence ==
    (op = "assert_cart_count" /\ number = 0)
        => /\ pc # "expect_visible" /\ pc # "assert_compare" /\ ~waited
           /\ (pc = "done" /\ ~badgeVisible => raised = "none")
           /\ (pc = "done" /\ badgeVisible /\ get_text(badgeText) = <<"0">> => raised = "none")
           /\ (pc = "done" /\ badgeVisible /\ ShowsNonZeroNumber(get_text(badgeText))
                 => /\ raised = "AssertionError"
                    /\ IsDecimalOf(message[2], Weigh(get_text(badgeText), 0)))

C5_WitnessAbsent ==
    AssertDone /\ number = 0 /\ ~badgeVisible /\ raised = "none"

C5_Witness ==
    AssertDone /\ number = 0 /\ badgeVisible /\ badgeText = <<" ", "0">> /\ raised = "none"

C5_WitnessNonZero ==
    AssertDone /\ number = 0 /\ badgeVisible /\ badgeText = <<"1", "0">>
        /\ raised = "AssertionError"

\* C9: assert_cart_count(expected), expected # 0, compares only once the badge is
\* visible, ends with a timeout error only with the badge never visible, succeeds
\* exactly when the trimmed badge text is the decimal rendering of expected, and
\* otherwise fails with an AssertionError naming expected and the actual text.
C9_AssertNonZeroWaitsThenCompares ==
    (op = "assert_cart_count" /\ number # 0)
        => /\ (pc \in {"expect_visible", "assert_compare", "done"} => waited)
           /\ (pc = "assert_compare" => badgeVisible)
           /\ (pc = "done" => raised \in {"none", "AssertionError", "ExpectTimeout"})
           /\ (pc = "done" => (raised = "ExpectTimeout" <=> ~badgeVisible))
           /\ (pc = "done" /\ badgeVisible =>
                 (raised = "none" <=> IsDecimalOf(get_text(badgeText), number)))
           /\ (pc = "done" /\ raised = "AssertionError" =>
                 /\ IsDecimalOf(message[2], number)
                 /\ message[4] = get_text(badgeText)
                 /\ message[4] # message[2])

C9_Witness ==
    /\ AssertDone /\ number = 10 /\ startCart = 0 /\ waited
    /\ badgeText = <<"1", "0", " ">> /\ raised = "none"

C9_WitnessMismatch ==
    /\ AssertDone /\ number = 1 /\ badgeText = <<"0", "1">>
    /\ raised = "AssertionError" /\ message = <<"Cart badge expected", <<"1">>, "got", <<"0", "1">>>>

----------------------------------------------------------------------------
\* The pytest session over the fixtures of tests/conftest.py.  A test either
\* requests the `page` fixture (a UI test) or does not (an API test); a yield
\* fixture's code after the yield runs when its scope ends.

\* most tests a session runs
MaxTests == 4

CurrentTest == Len(tests)

\* pytest collects a test and begins setting up its fixtures
StartTest ==
    /\ phase = "between"
    /\ Len(tests) < MaxTests
    /\ \E ui \in BOOLEAN :
          tests' = Append(tests, [ui |-> ui, outcome |-> "running", ctx |-> 0])
    /\ phase' = "setup"
    /\ UNCHANGED <<browser, launches, contexts>>
    /\ UNCHANGED <<pageVars, frameVars, obsVars, assertVars, cfgVars, logVars>>

\* browser fixture, scope="session", up to its yield: first requested, it launches
BrowserFixtureSetup ==
    /\ phase = "setup"
    /\ tests[CurrentTest].ui
    /\ browser = "unlaunched"
    /\ browser' = "open"
    /\ launches' = launches + 1
    /\ UNCHANGED <<phase, tests, contexts>>
    /\ UNCHANGED <<pageVars, frameVars, obsVars, assertVars, cfgVars, logVars>>

NewContext_Shared(ctxs) == IF ctxs = <<>> THEN <<[open |-> TRUE, ranTests |-> {}]>> ELSE ctxs

\* context = browser.new_context(); page = context.new_page()
NewContext(ctxs) == Append(ctxs, [open |-> TRUE, ranTests |-> {}])

\* page fixture, function scope, up to its yield
PageFixtureSetup ==
    /\ phase = "setup"
    /\ tests[CurrentTest].ui
    /\ browser = "open"
    /\ contexts' = NewContext(contexts)
    /\ tests' = [tests EXCEPT ![CurrentTest].ctx = Len(contexts')]
    /\ phase' = "call"
    /\ UNCHANGED <<browser, launches>>
    /\ UNCHANGED <<pageVars, frameVars, obsVars, assertVars, cfgVars, logVars>>

\* a test that does not request `page` has nothing of these fixtures to set up
ApiTestSetup ==
    /\ phase = "setup"
    /\ ~tests[CurrentTest].ui
    /\ phase' = "call"
    /\ UNCHANGED <<tests, browser, launches, contexts>>
    /\ UNCHANGED <<pageVars, frameVars, obsVars, assertVars, cfgVars, logVars>>

\* the test body runs on the page it was given, and passes or fails
RunTest ==
    /\ phase = "call"
    /\ \E outcome \in {"passed", "failed"} :
          tests' = [tests EXCEPT ![CurrentTest].outcome = outcome]
    /\ contexts' = IF tests[CurrentTest].ui
                   THEN [contexts EXCEPT ![tests[CurrentTest].ctx].ranTests = @ \cup {CurrentTest}]
                   ELSE contexts
    /\ phase' = "teardown"
    /\ UNCHANGED <<browser, launches>>
    /\ UNCHANGED <<pageVars, frameVars, obsVars, assertVars, cfgVars, logVars>>

TeardownRuns_OnPassOnly(outcome) == outcome = "passed"

\* pytest resumes a yield fixture after its yield whatever the test's outcome
TeardownRuns(outcome) == outcome \in {"passed", "failed"}

\* page fixture after its yield: context.close()
PageFixtureTeardown ==
    /\ phase = "teardown"
    /\ contexts' = IF tests[CurrentTest].ui /\ TeardownRuns(tests[CurrentTest].outcome)
                   THEN [contexts EXCEPT ![tests[CurrentTest].ctx].open = FALSE]
                   ELSE contexts
    /\ phase' = "between"
    /\ UNCHANGED <<tests, browser, launches>>
    /\ UNCHANGED <<pageVars, frameVars, obsVars, assertVars, cfgVars, logVars>>

\* the session ends; browser fixture after its yield: browser.close()
BrowserFixtureTeardown ==
    /\ phase = "between"
    /\ phase' = "finished"
    /\ browser' = IF browser = "open" THEN "closed" ELSE browser
    /\ UNCHANGED <<tests, launches, contexts>>
    /\ UNCHANGED <<pageVars, frameVars, obsVars, assertVars, cfgVars, logVars>>

NextFixtures ==
    \/ StartTest
    \/ BrowserFixtureSetup
    \/ PageFixtureSetup
    \/ ApiTestSetup
    \/ RunTest
    \/ PageFixtureTeardown
    \/ BrowserFixtureTeardown

SpecFixtures == Init /\ [][NextFixtures]_vars

UiTests == {t \in 1..Len(tests) : tests[t].ui}
\* the tests whose teardown has run
EndedTests == {t \in 1..Len(tests) : t < Len(tests) \/ phase \in {"between", "finished"}}

\* C6: every UI test that runs has a context of its own, on which no other test
\* ran; the context of a test that has ended, passed or failed, is closed, and
\* so is every context but the last created; the browser is launched at most
\* once and is closed only with every context closed.
C6_FreshContextPerTest ==
    /\ \A t \in UiTests :
          /\ (tests[t].outcome # "running" \/ phase = "call")
                => /\ tests[t].ctx \in 1..Len(contexts)
                   /\ contexts[tests[t].ctx].ranTests \subseteq {t}
                   /\ \A u \in UiTests : u # t => tests[u].ctx # tests[t].ctx
          /\ (t = CurrentTest /\ phase = "call") => contexts[tests[t].ctx].open
          /\ t \in EndedTests => ~contexts[tests[t].ctx].open
    /\ \A c \in 1..Len(contexts) : c < Len(contexts) => ~contexts[c].open
    /\ launches <= 1
    /\ (contexts # <<>> => launches = 1)
    /\ (phase = "call" /\ tests[CurrentTest].ui => browser = "open")
    /\ (browser = "closed" => \A c \in 1..Len(contexts) : ~contexts[c].open)
    /\ (browser = "closed" => phase = "finished")

C6_Witness ==
    /\ phase = "finished" /\ browser = "closed" /\ launches = 1
    /\ Len(tests) = 3 /\ Len(contexts) = 2
    /\ tests[1].ui /\ tests[1].outcome = "failed"
    /\ ~tests[2].ui
    /\ tests[3].ui /\ tests[3].outcome = "passed"
    /\ \A c \in 1..2 : ~contexts[c].open

----------------------------------------------------------------------------
\* AirportData.expected_airports over any configured AIRPORTS_EXPECTED text

\* longest configured text tried exhaustively
MaxCsvLen == 4

CsvAlphabet == {"A", "B", "C", " ", ","}
ExampleCsv == <<"A", ",", " ", "B", " ", ",", ",", "C">>
CsvInputs == UNION {[1..n -> CsvAlphabet] : n \in 0..MaxCsvLen} \cup {ExampleCsv}

\* str.split(sep): the fields between separators, empty fields included
RECURSIVE SplitFrom(_, _, _)
SplitFrom(s, sep, field) ==
    IF s = <<>> THEN <<field>>
    ELSE IF Head(s) = sep THEN <<field>> \o SplitFrom(Tail(s), sep, <<>>)
    ELSE SplitFrom(Tail(s), sep, Append(field, Head(s)))

Split(s, sep) == SplitFrom(s, sep, <<>>)

KeepEntry_Unstripped(a) == a # <<>>

\* if a.strip()
KeepEntry(a) == Strip(a) # <<>>

\* [a.strip() for a in fields if a.strip()]
RECURSIVE StripAndDropBlank(_)
StripAndDropBlank(fields) ==
    IF fields = <<>> THEN <<>>
    ELSE IF KeepEntry(Head(fields))
         THEN <<Strip(Head(fields))>> \o StripAndDropBlank(Tail(fields))
         ELSE StripAndDropBlank(Tail(fields))

\* (a list that keeps only the first occurrence of each entry)
RECURSIVE DropRepeats(_, _)
DropRepeats(entries, seen) ==
    IF entries = <<>> THEN <<>>
    ELSE IF Head(entries) \in seen THEN DropRepeats(Tail(entries), seen)
    ELSE <<Head(entries)>> \o DropRepeats(Tail(entries), seen \cup {Head(entries)})

expected_airports_Deduplicated(csv) == DropRepeats(StripAndDropBlank(Split(csv, ",")), {})

\* the expected_airports property
expected_airports(csv) == StripAndDropBlank(Split(csv, ","))

InitParse ==
    /\ FreshPage
    /\ InitFrame
    /\ InitSession
    /\ InitLogger
    /\ expected_airports_csv \in CsvInputs
    /\ airportsRead = FALSE
    /\ parsed = <<>>

\* a test reads airports_test_data.expected_airports
ReadExpectedAirports ==
    /\ parsed' = expected_airports(expected_airports_csv)
    /\ airportsRead' = TRUE
    /\ UNCHANGED expected_airports_csv
    /\ UNCHANGED <<pageVars, frameVars, obsVars, assertVars, fixVars, logVars>>

NextParse == ReadExpectedAirports

SpecParse == InitParse /\ [][NextParse]_vars

\* The entries of a text, by position: an entry starts at the text's start or
\* after a comma and runs to the next comma or the text's end
EntryStarts(csv) == {1} \cup {k + 1 : k \in {c \in 1..Len(csv) : csv[c] = ","}}
EntryEnd(csv, a) ==
    LET commas == {c \in a..Len(csv) : csv[c] = ","}
    IN  IF commas = {} THEN Len(csv)
        ELSE (CHOOSE c \in commas : \A d \in commas : c <= d) - 1
Inked(csv, a) == {k \in a..EntryEnd(csv, a) : csv[k] \notin Whitespace}
NonBlankStarts(csv) == {a \in EntryStarts(csv) : Inked(csv, a) # {}}
Trimmed(csv, a) ==
    LET ink == Inked(csv, a)
        lo == CHOOSE k \in ink : \A m \in ink : k <= m
        hi == CHOOSE k \in ink : \A m \in ink : k >= m
    IN  SubSeq(csv, lo, hi)
Rank(csv, a) == Cardinality({b \in NonBlankStarts(csv) : b <= a})

\* C7: the list read holds, in their original order, exactly the entries of the
\* text that are not empty or whitespace-only, each trimmed of surrounding
\* whitespace; "A, B ,,C" gives ["A", "B", "C"].
C7_ExpectedAirportsTrimmedNonBlank ==
    airportsRead =>
        /\ Len(parsed) = Cardinality(NonBlankStarts(expected_airports_csv))
        /\ \A a \in NonBlankStarts(expected_airports_csv) :
              parsed[Rank(expected_airports_csv, a)] = Trimmed(expected_airports_csv, a)
        /\ \A k \in 1..Len(parsed) :
              /\ parsed[k] # <<>>
              /\ Head(parsed[k]) \notin Whitespace
              /\ parsed[k][Len(parsed[k])] \notin Whitespace
              /\ \A m \in 1..Len(parsed[k]) : parsed[k][m] # ","
        /\ (expected_airports_csv = ExampleCsv => parsed = <<<<"A">>, <<"B">>, <<"C">>>>)

C7_Witness ==
    /\ airportsRead
    /\ expected_airports_csv = ExampleCsv
    /\ parsed = <<<<"A">>, <<"B">>, <<"C">>>>

C7_WitnessInnerSpace ==
    /\ airportsRead
    /\ expected_airports_csv = <<" ", "A", " ", "B">>
    /\ parsed = <<<<"A", " ", "B">>>>

\* C11 as stated: the list read contains no entry twice.
C11_NoDuplicateEntries ==
    airportsRead =>
        \A j, k \in 1..Len(parsed) : j # k => parsed[j] # parsed[k]

\* C11 amended: the list read keeps duplicates: a name appears in it as many
\* times as the text has non-blank entries that trim to that name.
C11_DuplicatesKept ==
    airportsRead =>
        \A a \in NonBlankStarts(expected_airports_csv) :
            Cardinality({k \in 1..Len(parsed) : parsed[k] = Trimmed(expected_airports_csv, a)})
                = Cardinality({b \in NonBlankStarts(expected_airports_csv) :
                                 Trimmed(expected_airports_csv, b) = Trimmed(expected_airports_csv, a)})

C11_Witness ==
    /\ airportsRead
    /\ expected_airports_csv = <<"A", ",", " ", "A">>
    /\ parsed = <<<<"A">>, <<"A">>>>

----------------------------------------------------------------------------
\* utils/logger.py: setup_logger(name), called at any time of the run

\* clock ticks the run lasts
MaxClock == 4
\* clock ticks in a second, the resolution of the file name's timestamp
TicksPerSecond == 2

\* datetime.utcnow().strftime("%Y%m%d_%H%M%S"): the time, to the second
session_ts(now) == now \div TicksPerSecond

\* os.path.join(LOG_DIR, f"test_run_{session_ts}.log")
LogFile(now) == <<"test_run_", session_ts(now), ".log">>

StreamHandler == [kind |-> "stream", target |-> <<"stderr">>]
FileHandler(path) == [kind |-> "file", target |-> path]

\* time passes
Tick ==
    /\ clock < MaxClock
    /\ clock' = clock + 1
    /\ UNCHANGED <<_loggers, handlers, returned>>
    /\ UNCHANGED <<pageVars, frameVars, obsVars, assertVars, fixVars, cfgVars>>

setup_logger ==
    \E name \in LoggerNames :
        /\ returned' = name
        /\ IF name \in _loggers
           THEN UNCHANGED <<_loggers, handlers>>
           ELSE /\ handlers' =
                     IF handlers[name] = <<>>
                     THEN [handlers EXCEPT ![name] = <<StreamHandler, FileHandler(LogFile(clock))>>]
                     ELSE handlers
                /\ _loggers' = _loggers \cup {name}
        /\ UNCHANGED clock
        /\ UNCHANGED <<pageVars, frameVars, obsVars, assertVars, fixVars, cfgVars>>

NextLogger ==
    \/ Tick
    \/ setup_logger

SpecLogger == Init /\ [][NextLogger]_vars

\* the files the registered file handlers write to
LogFiles ==
    {handlers[n][k].target : <<n, k>> \in
        {<<n, k>> \in LoggerNames \X (1..2) : k <= Len(handlers[n]) /\ handlers[n][k].kind = "file"}}

\* C8: every file handler registered during the run points to one and the same
\* timestamped file.
C8_OneLogFilePerRun == Cardinality(LogFiles) <= 1

====
